---- MODULE Spec2Model ----
(***************************************************************************)
(* Model of the monthly funding pipeline of deribit-perpetual-funding:     *)
(*   pull_and_save_monthly_data.py  (fetch wrapper, month partitioning,    *)
(*                                   wide-table assembler)                 *)
(*   chart_app.py                   (load_data, melt, windowed cumulative  *)
(*                                   sums)                                 *)
(* Text is modelled as sequences of one-character strings, so that         *)
(* stripping, formatting, joining and splitting are computed, not assumed. *)
(* Decimal fractions are modelled as integers counting hundredths          *)
(* (0.01 is 1); floating-point rounding is not modelled.                   *)
(***************************************************************************)
EXTENDS Integers, Sequences, FiniteSets, TLC

VARIABLES
    pc,            \* position of the run of fetch_monthly_funding_multi_instruments_to_csv
    instruments,   \* the `instruments` name: the caller's list, then the cleaned list
    start_month,   \* caller's start month string, as <<year, month>>
    end_month,     \* caller's end month string, as <<year, month>>
    retries,       \* keyword argument retries
    retry_backoff_s, \* keyword argument retry_backoff_s
    error_value,   \* keyword argument error_value
    current,       \* loop variable `current` (first of month), <<year, month>>
    next_month,    \* local next_month
    start_ts,      \* local start_ts
    end_ts,        \* local end_ts
    values,        \* the list `values` of the month in progress
    idx,           \* position of `inst` in the instrument loop
    attempt,       \* loop variable `attempt` of the fetch wrapper
    requests,      \* HTTP requests issued by the wrapper invocation in progress
    delays,        \* time.sleep arguments of the wrapper invocation in progress
    resp,          \* the last HTTP outcome seen by the wrapper invocation in progress
    allTransport,  \* every attempt of the invocation so far raised a transport exception
    retval,        \* what the wrapper returned
    raised,        \* an exception left a function: "none", or where it came from
    anyHttp,       \* some HTTP request has been issued in this run
    fileState,     \* "untouched", "open" (truncated, buffered), "closed"
    rows,          \* the argument lists given to writer.writerow, in order
    stream,        \* the lines handed to the file object, in order
    flushed,       \* how many lines of `stream` have reached the file on disk
    calls,         \* the wrapper invocations made: inst position, window, result
    loaded,        \* chart_app: what load_data made of the file (DF_WIDE, INSTRUMENTS)
    df_long,       \* chart_app: DF_LONG
    fig,           \* chart_app: the last figure made by make_cum_fig, with its arguments
    stats          \* chart_app: the last table made by make_stats_table

vars == <<pc, instruments, start_month, end_month, retries, retry_backoff_s,
          error_value, current, next_month, start_ts, end_ts, values, idx, attempt, requests, delays, resp,
          allTransport, retval, raised, anyHttp, fileState, rows, stream,
          flushed, calls, loaded, df_long, fig, stats>>

----------------------------------------------------------------------------
(* Bounds of the model *)

MaxRetries == 4      \* retries ranges over -1..MaxRetries
MaxInst == 2         \* the caller's list has at most MaxInst entries
MaxMonths == 2       \* the month range spans at most MaxMonths months
NumStarts == 4       \* start months: StartLo .. StartLo + NumStarts - 1
MaxCells == 4        \* instruments times months of a run is at most MaxCells
BufferSize == 100    \* characters the io buffer of the output file holds

\* First start month of the model: November 2019, so that the ranges cross
\* December -> January and the leap February of 2020.
StartLo == 2019 * 12 + 10

\* An optional value is a sequence: <<>> is Python's None, <<v>> is the value v
NoData == <<>>
Some(v) == <<v>>

----------------------------------------------------------------------------
(* Text helpers *)

DigitChars == <<"0", "1", "2", "3", "4", "5", "6", "7", "8", "9">>

Digit(d) == DigitChars[d + 1]

IsDigit(c) == \E d \in 0..9 : c = Digit(d)

DigitVal(c) == CHOOSE d \in 0..9 : c = Digit(d)

RECURSIVE FormatNat(_)
\* str(n) for an int n >= 0
FormatNat(n) == IF n < 10 THEN <<Digit(n)>>
                ELSE Append(FormatNat(n \div 10), Digit(n % 10))

\* f"{n:0<w>d}" for n >= 0 of at most w digits (w is 2, 3 or 4 here)
RECURSIVE ZeroPad(_, _)
ZeroPad(n, w) == IF w = 0 THEN <<>>
                 ELSE Append(ZeroPad(n \div 10, w - 1), Digit(n % 10))

RECURSIVE ParseNat(_)
\* int(s) for a non-empty all-digit s
ParseNat(s) == IF Len(s) = 0 THEN 0
               ELSE ParseNat(SubSeq(s, 1, Len(s) - 1)) * 10 + DigitVal(s[Len(s)])

AllDigits(s) == Len(s) > 0 /\ \A i \in 1..Len(s) : IsDigit(s[i])

RECURSIVE LStrip(_)
LStrip(s) == IF Len(s) > 0 /\ s[1] = " " THEN LStrip(Tail(s)) ELSE s

RECURSIVE RStrip(_)
RStrip(s) == IF Len(s) > 0 /\ s[Len(s)] = " "
             THEN RStrip(SubSeq(s, 1, Len(s) - 1)) ELSE s

\* str.strip()
Strip(s) == RStrip(LStrip(s))

RECURSIVE Join(_, _)
\* sep.join(fields)
Join(fields, sep) ==
    IF Len(fields) = 0 THEN <<>>
    ELSE IF Len(fields) = 1 THEN fields[1]
    ELSE fields[1] \o <<sep>> \o Join(Tail(fields), sep)

RECURSIVE SplitFrom(_, _, _)
\* the fields of line s split at sep; acc is the field in progress
SplitFrom(s, sep, acc) ==
    IF Len(s) = 0 THEN <<acc>>
    ELSE IF s[1] = sep THEN <<acc>> \o SplitFrom(Tail(s), sep, <<>>)
    ELSE SplitFrom(Tail(s), sep, Append(acc, s[1]))

Split(s, sep) == SplitFrom(s, sep, <<>>)

\* the fixed column names of the header (line 129, and meta_cols of load_data)
Name_month == <<"m", "o", "n", "t", "h">>
Name_start == <<"s", "t", "a", "r", "t", "_", "t", "i", "m", "e", "s", "t", "a", "m", "p", "_", "m", "s">>
Name_end == <<"e", "n", "d", "_", "t", "i", "m", "e", "s", "t", "a", "m", "p", "_", "m", "s">>

----------------------------------------------------------------------------
(* Calendar: a first-of-month datetime is <<year, month>> *)

Year(dt) == dt[1]
Month(dt) == dt[2]

\* absolute month number, and back
MonthIndex(dt) == Year(dt) * 12 + Month(dt) - 1
MonthOf(i) == <<i \div 12, (i % 12) + 1>>

\* datetime comparison of two first-of-month datetimes
DtLeq(a, b) == Year(a) < Year(b) \/ (Year(a) = Year(b) /\ Month(a) <= Month(b))

IsLeap(y) == (y % 4 = 0 /\ y % 100 # 0) \/ y % 400 = 0

DaysInMonth(y, m) ==
    IF m = 2 THEN (IF IsLeap(y) THEN 29 ELSE 28)
    ELSE IF m \in {4, 6, 9, 11} THEN 30 ELSE 31

RECURSIVE DaysBeforeMonth(_, _)
\* days from January 1st of y to the first of month m
DaysBeforeMonth(y, m) ==
    IF m = 1 THEN 0 ELSE DaysBeforeMonth(y, m - 1) + DaysInMonth(y, m - 1)

\* days from 1970-01-01 to January 1st of y (y >= 1970)
DaysBeforeYear(y) ==
    365 * (y - 1970) + ((y - 1969) \div 4) - ((y - 1901) \div 100)
      + ((y - 1601) \div 400)

\* _parse_month_yyyy_mm: the pair, or a ValueError for a month outside 1..12
ValidMonthStr(s) == 1 <= s[2] /\ s[2] <= 12

\* _month_start_utc
MonthStartUtc(y, m) == <<y, m>>

\* _add_one_month
AddOneMonth(dt) ==
    IF Month(dt) = 12 THEN <<Year(dt) + 1, 1>> ELSE <<Year(dt), Month(dt) + 1>>

\* A millisecond timestamp t is [sec, ms] with value sec * 1000 + ms,
\* 0 <= ms < 1000 (the value itself does not fit in 32 bits).
\* _to_ms: int(dt.timestamp() * 1000) of a UTC first-of-month datetime
ToMs(dt) ==
    [sec |-> (DaysBeforeYear(Year(dt)) + DaysBeforeMonth(Year(dt), Month(dt))) * 86400,
     ms |-> 0]

\* t - 1 and t + 1 on millisecond timestamps
MsPred(t) == IF t.ms > 0 THEN [sec |-> t.sec, ms |-> t.ms - 1]
             ELSE [sec |-> t.sec - 1, ms |-> 999]
MsSucc(t) == IF t.ms < 999 THEN [sec |-> t.sec, ms |-> t.ms + 1]
             ELSE [sec |-> t.sec + 1, ms |-> 0]

\* as EndTs, without the `- 1`
EndTs_nextStart(dt) == ToMs(AddOneMonth(dt))

\* start_ts and end_ts of the window of month `dt` (lines 132-134)
StartTs(dt) == ToMs(dt)
EndTs(dt) == MsPred(ToMs(AddOneMonth(dt)))

\* _month_label: f"{dt.year:04d}-{dt.month:02d}"
MonthLabel(dt) == ZeroPad(Year(dt), 4) \o <<"-">> \o ZeroPad(Month(dt), 2)

\* str() of a millisecond timestamp
FormatTs(t) == IF t.sec = 0 THEN FormatNat(t.ms)
               ELSE FormatNat(t.sec) \o ZeroPad(t.ms, 3)

\* repr() of a float given in hundredths: "0.0", "0.07", "-0.01", "1.5"
FormatFloat(v) ==
    LET a == IF v < 0 THEN 0 - v ELSE v
        f == a % 100
    IN  (IF v < 0 THEN <<"-">> ELSE <<>>) \o FormatNat(a \div 100) \o <<".">>
          \o (IF f % 10 = 0 THEN <<Digit(f \div 10)>>
              ELSE <<Digit(f \div 10), Digit(f % 10)>>)

----------------------------------------------------------------------------
(* The fetch wrapper get_funding_rate_value_or_none *)

\* values the API may report, in hundredths
ResultValues == {-1}

\* What one requests.get can bring: a transport exception (timeout,
\* connection error), or a response with an HTTP status (ok or not) and a
\* body that is unparsable, JSON that is no object, or a JSON object with or
\* without a truthy "error" and with or without "result" (possibly null).
NoResponse == [kind |-> "none", ok |-> FALSE, json |-> "none", error |-> FALSE,
               hasResult |-> FALSE, result |-> NoData]

TransportFailure == [NoResponse EXCEPT !.kind = "exception"]

Response(o, j, e, h, r) ==
    [kind |-> "response", ok |-> o, json |-> j, error |-> e, hasResult |-> h,
     result |-> r]

Responses ==
    {TransportFailure,
     Response(FALSE, "unparsable", FALSE, FALSE, NoData),  \* HTTP error, no JSON
     Response(TRUE, "unparsable", FALSE, FALSE, NoData),   \* 200 with a broken body
     Response(TRUE, "nondict", FALSE, FALSE, NoData),      \* JSON that is no object
     Response(FALSE, "dict", TRUE, FALSE, NoData),         \* JSON-RPC error with HTTP 400
     Response(TRUE, "dict", TRUE, TRUE, NoData),           \* error beside a null result
     Response(TRUE, "dict", FALSE, FALSE, NoData),         \* object without "result"
     Response(TRUE, "dict", FALSE, TRUE, NoData)}          \* "result": null
    \cup {Response(FALSE, "dict", FALSE, TRUE, Some(v)) : v \in ResultValues}
    \cup {Response(TRUE, "dict", FALSE, TRUE, Some(v)) : v \in ResultValues}

\* the response carries a structured error object (line 50)
IsStructuredError(r) == r.kind = "response" /\ r.json = "dict" /\ r.error

Return(v) == [act |-> "return", val |-> v, exc |-> "none"]
Raise(e) == [act |-> "raise", val |-> NoData, exc |-> e]

\* the inner `except Exception` around r.json() (lines 44-47): payload is
\* None when the body does not parse
JsonPayload(r) == IF r.json = "unparsable" THEN "None" ELSE r.json

\* as OnResponse, with a structured error treated like any unexpected body
OnResponse_errorIsTransient(r) ==
    IF r.kind = "exception" THEN Raise("RequestException")
    ELSE IF ~r.ok THEN Raise("HTTPError")
    ELSE IF JsonPayload(r) # "dict" \/ ~r.hasResult \/ r.error THEN Raise("RuntimeError")
    ELSE Return(r.result)

\* the body of the try block for one attempt (lines 41-61)
OnResponse(r) ==
    IF r.kind = "exception" THEN Raise("RequestException")
    ELSE IF JsonPayload(r) = "dict" /\ r.error THEN Return(NoData)
    ELSE IF ~r.ok THEN Raise("HTTPError")
    ELSE IF JsonPayload(r) # "dict" \/ ~r.hasResult THEN Raise("RuntimeError")
    ELSE Return(r.result)

\* as ExceptCatches, for `except requests.ConnectionError`
ExceptCatches_transportOnly(e) == e = "RequestException"

\* as ExceptCatches, for `except requests.RequestException`
ExceptCatches_requestsOnly(e) == e \in {"RequestException", "HTTPError"}

\* `except Exception` (line 63) catches every exception class the try block raises
ExceptCatches(e) == e \in {"RequestException", "HTTPError", "RuntimeError"}

\* as InRange, for a loop that tests its bound after the first attempt
InRange_atLeastOnce(a, n) == a <= n \/ a = 1

\* as InRange, for a loop of one first attempt and then `retries` retries
InRange_extraAttempt(a, n) == a <= n + 1

\* `for attempt in range(1, retries + 1)` (line 39): the loop takes `a`
InRange(a, n) == a <= n

\* `if attempt < retries` (line 65): a sleep follows this failed attempt
SleepsAfter(a, n) == a < n

\* as BackoffDelay, doubling with every attempt
BackoffDelay_exponential(base, a) == base * 2 ^ (a - 1)

\* `retry_backoff_s * attempt` (line 66)
BackoffDelay(base, a) == base * a

wrapperLocals == <<attempt, requests, delays, resp, allTransport>>

\* One iteration of the attempt loop: the request and what the code makes of it
Request ==
    /\ pc = "attempt"
    /\ InRange(attempt, retries)
    /\ \E r \in Responses :
         LET o == OnResponse(r) IN
         /\ resp' = r
         /\ requests' = requests + 1
         /\ anyHttp' = TRUE
         /\ allTransport' = (allTransport /\ r.kind = "exception")
         /\ IF o.act = "return"
            THEN /\ pc' = "ret"
                 /\ retval' = o.val
                 /\ UNCHANGED <<attempt, delays, raised>>
            ELSE IF ExceptCatches(o.exc)
            THEN /\ pc' = "attempt"
                 /\ delays' = IF SleepsAfter(attempt, retries)
                              THEN Append(delays, BackoffDelay(retry_backoff_s, attempt))
                              ELSE delays
                 /\ attempt' = attempt + 1
                 /\ UNCHANGED <<retval, raised>>
            ELSE /\ pc' = "raised"
                 /\ raised' = "get_funding_rate_value_or_none"
                 /\ UNCHANGED <<attempt, delays, retval>>
    /\ UNCHANGED <<instruments, start_month, end_month, retries, retry_backoff_s,
                   error_value, current, next_month, start_ts, end_ts, values, idx,
                   fileState, rows, stream, flushed, calls, loaded, df_long, fig, stats>>

\* The loop is over (or never ran): `return None` of line 69
GiveUp ==
    /\ pc = "attempt"
    /\ ~InRange(attempt, retries)
    /\ pc' = "ret"
    /\ retval' = NoData
    /\ UNCHANGED <<instruments, start_month, end_month, retries, retry_backoff_s,
                   error_value, current, next_month, start_ts, end_ts, values, idx, attempt, requests, delays,
                   resp, allTransport, raised, anyHttp, fileState, rows, stream,
                   flushed, calls, loaded, df_long, fig, stats>>

----------------------------------------------------------------------------
(* The assembler fetch_monthly_funding_multi_instruments_to_csv *)

RECURSIVE CleanInstruments(_)
\* [i.strip() for i in instruments if i and i.strip()] (line 115)
CleanInstruments(l) ==
    IF Len(l) = 0 THEN <<>>
    ELSE IF Len(l[1]) > 0 /\ Len(Strip(l[1])) > 0
         THEN <<Strip(l[1])>> \o CleanInstruments(Tail(l))
         ELSE CleanInstruments(Tail(l))

\* the delimiter of csv.writer(f): the default dialect (line 128)
WriterDelimiter == ","

\* the header row (line 129)
HeaderFields(insts) == <<Name_month, Name_start, Name_end>> \o insts

\* a data row as given to writerow (line 151)
Row(cur, s, e, vals) == [label |-> MonthLabel(cur), start_ts |-> s, end_ts |-> e,
                         values |-> vals]

\* the text of the fields of a data row: str() of ints, repr() of floats
RowFields(row) ==
    <<row.label, FormatTs(row.start_ts), FormatTs(row.end_ts)>>
      \o [i \in 1..Len(row.values) |-> FormatFloat(row.values[i])]

\* writer.writerow: one line, fields joined by the delimiter
WriteLine(fields) == Join(fields, WriterDelimiter)

RECURSIVE CharsOf(_)
\* characters of the lines, each with its "\r\n" terminator
CharsOf(lines) ==
    IF Len(lines) = 0 THEN 0 ELSE Len(lines[1]) + 2 + CharsOf(Tail(lines))

\* open(csv_path, "w") buffers (line 127): a write that does not fit first
\* sends the buffered lines to the file, and the new line stays buffered
FlushedAfterWrite(strm, fl, line) ==
    IF CharsOf(SubSeq(strm, fl + 1, Len(strm))) + Len(line) + 2 > BufferSize
    THEN Len(strm) ELSE fl

\* the lines of the file on disk
Disk == SubSeq(stream, 1, flushed)

\* as CellValue, with 0.0 written in place of error_value
CellValue_zeroFill(v, ev) == IF v = NoData THEN 0 ELSE v[1]

\* `v if v is not None else error_value` (line 146)
CellValue(v, ev) == IF v = NoData THEN ev ELSE v[1]

\* as LoopContinues, for `while current < end_dt_inclusive`
LoopContinues_exclusive(cur, endm) ==
    DtLeq(cur, MonthStartUtc(endm[1], endm[2])) /\ cur # MonthStartUtc(endm[1], endm[2])

\* `while current <= end_dt_inclusive` (line 131)
LoopContinues(cur, endm) == DtLeq(cur, MonthStartUtc(endm[1], endm[2]))

\* as InvertedRange, with the comparison left out
InvertedRange_unchecked(cur, end_dt) == FALSE

\* `if current > end_dt_inclusive` (line 124)
InvertedRange(cur, end_dt) == ~DtLeq(cur, end_dt)

\* Lines 115-125: clean the list, parse the months, compare them
Validate ==
    /\ pc = "start"
    /\ LET cleaned == CleanInstruments(instruments) IN
       /\ instruments' = cleaned
       /\ IF cleaned = <<>>
          THEN /\ pc' = "raised" /\ raised' = "ValueError: No instruments provided."
               /\ UNCHANGED current
          ELSE IF ~ValidMonthStr(start_month) \/ ~ValidMonthStr(end_month)
          THEN /\ pc' = "raised" /\ raised' = "ValueError: Invalid month"
               /\ UNCHANGED current
          ELSE /\ current' = MonthStartUtc(start_month[1], start_month[2])
               /\ IF InvertedRange(current', MonthStartUtc(end_month[1], end_month[2]))
                  THEN pc' = "raised" /\ raised' = "ValueError: start_month must be <= end_month"
                  ELSE pc' = "open" /\ UNCHANGED raised
    /\ UNCHANGED <<start_month, end_month, retries, retry_backoff_s, error_value,
                   next_month, start_ts, end_ts, values, idx, retval, anyHttp,
                   fileState, rows, stream, flushed, calls, loaded, df_long, fig, stats>>
    /\ UNCHANGED wrapperLocals

\* Line 127: open(csv_path, "w") truncates the file
OpenFile ==
    /\ pc = "open"
    /\ fileState' = "open"
    /\ stream' = <<>>
    /\ flushed' = 0
    /\ pc' = "header"
    /\ UNCHANGED <<instruments, start_month, end_month, retries, retry_backoff_s,
                   error_value, current, next_month, start_ts, end_ts, values, idx,
                   retval, raised, anyHttp, rows, calls, loaded, df_long, fig, stats>>
    /\ UNCHANGED wrapperLocals

\* Lines 128-129: the header row
WriteHeader ==
    /\ pc = "header"
    /\ LET line == WriteLine(HeaderFields(instruments)) IN
       /\ flushed' = FlushedAfterWrite(stream, flushed, line)
       /\ stream' = Append(stream, line)
    /\ pc' = "month"
    /\ UNCHANGED <<instruments, start_month, end_month, retries, retry_backoff_s,
                   error_value, current, next_month, start_ts, end_ts, values, idx,
                   retval, raised, anyHttp, fileState, rows, calls, loaded, df_long, fig, stats>>
    /\ UNCHANGED wrapperLocals

\* Lines 131-136: the loop takes another month
NextMonth ==
    /\ pc = "month"
    /\ LoopContinues(current, end_month)
    /\ next_month' = AddOneMonth(current)
    /\ start_ts' = StartTs(current)
    /\ end_ts' = EndTs(current)
    /\ values' = <<>>
    /\ idx' = 1
    /\ pc' = "inst"
    /\ UNCHANGED <<instruments, start_month, end_month, retries, retry_backoff_s,
                   error_value, current, retval, raised, anyHttp, fileState, rows,
                   stream, flushed, calls, loaded, df_long, fig, stats>>
    /\ UNCHANGED wrapperLocals

\* Line 131 false: the with block ends and closes the file
Finish ==
    /\ pc = "month"
    /\ ~LoopContinues(current, end_month)
    /\ fileState' = "closed"
    /\ flushed' = Len(stream)
    /\ pc' = "done"
    /\ UNCHANGED <<instruments, start_month, end_month, retries, retry_backoff_s,
                   error_value, current, next_month, start_ts, end_ts, values, idx,
                   retval, raised, anyHttp, rows, stream, calls, loaded, df_long, fig, stats>>
    /\ UNCHANGED wrapperLocals

\* Lines 137-145: the wrapper is called for the next instrument
CallWrapper ==
    /\ pc = "inst"
    /\ idx <= Len(instruments)
    /\ attempt' = 1
    /\ requests' = 0
    /\ delays' = <<>>
    /\ resp' = NoResponse
    /\ allTransport' = TRUE
    /\ calls' = Append(calls, [inst |-> idx, name |-> instruments[idx],
                               month |-> current, start_ts |-> start_ts,
                               end_ts |-> end_ts, ret |-> NoData, done |-> FALSE])
    /\ pc' = "attempt"
    /\ UNCHANGED <<instruments, start_month, end_month, retries, retry_backoff_s,
                   error_value, current, next_month, start_ts, end_ts, values, idx,
                   retval, raised, anyHttp, fileState, rows, stream, flushed, loaded,
                   df_long, fig, stats>>

\* Lines 146-149: the wrapper has returned; its value, or error_value, is kept
\* (the optional time.sleep(sleep_s) of lines 148-149 changes no state)
AppendValue ==
    /\ pc = "ret"
    /\ values' = Append(values, CellValue(retval, error_value))
    /\ calls' = [calls EXCEPT ![Len(calls)].ret = retval, ![Len(calls)].done = TRUE]
    /\ idx' = idx + 1
    /\ attempt' = 1
    /\ requests' = 0
    /\ delays' = <<>>
    /\ resp' = NoResponse
    /\ allTransport' = TRUE
    /\ retval' = NoData
    /\ pc' = "inst"
    /\ UNCHANGED <<instruments, start_month, end_month, retries, retry_backoff_s,
                   error_value, current, next_month, start_ts, end_ts, raised,
                   anyHttp, fileState, rows, stream, flushed, loaded, df_long, fig, stats>>

\* Lines 151-152: the row of the month is written and the month advances
WriteRow ==
    /\ pc = "inst"
    /\ idx > Len(instruments)
    /\ LET row == Row(current, start_ts, end_ts, values)
           line == WriteLine(RowFields(row)) IN
       /\ rows' = Append(rows, row)
       /\ flushed' = FlushedAfterWrite(stream, flushed, line)
       /\ stream' = Append(stream, line)
    /\ current' = next_month
    /\ pc' = "month"
    /\ UNCHANGED <<instruments, start_month, end_month, retries, retry_backoff_s,
                   error_value, next_month, start_ts, end_ts, values, idx, retval,
                   raised, anyHttp, fileState, calls, loaded, df_long, fig, stats>>
    /\ UNCHANGED wrapperLocals

----------------------------------------------------------------------------
(* chart_app.py: load_data and the long table *)

\* the separator load_data reads with: pd.read_csv(csv_path, sep=";")
ReaderSeparator == ";"

\* characters in ASCII order, for comparing names
Alphabet == <<" ", ",", "-", ".", "0", "1", "2", "3", "4", "5", "6", "7", "8",
              "9", ";", "A", "B", "_", "a", "d", "e", "h", "i", "m", "n", "o",
              "p", "r", "s", "t">>

CharRank(c) == CHOOSE i \in 1..Len(Alphabet) : Alphabet[i] = c

RECURSIVE StrLess(_, _)
\* a < b on strings
StrLess(a, b) ==
    IF Len(b) = 0 THEN FALSE
    ELSE IF Len(a) = 0 THEN TRUE
    ELSE IF a[1] = b[1] THEN StrLess(Tail(a), Tail(b))
    ELSE CharRank(a[1]) < CharRank(b[1])

\* pd.to_datetime(cell, format="%Y-%m"): the month, or <<>> when it does not parse
ParseMonth(c) ==
    IF /\ Len(c) \in {6, 7}
       /\ AllDigits(SubSeq(c, 1, 4))
       /\ c[5] = "-"
       /\ AllDigits(SubSeq(c, 6, Len(c)))
       /\ ParseNat(SubSeq(c, 6, Len(c))) \in 1..12
    THEN <<ParseNat(SubSeq(c, 1, 4)), ParseNat(SubSeq(c, 6, Len(c)))>>
    ELSE <<>>

\* position of the first "." of c, or 0
DotAt(c) == IF \E i \in 1..Len(c) : c[i] = "."
            THEN CHOOSE i \in 1..Len(c) : c[i] = "." /\ \A j \in 1..(i - 1) : c[j] # "."
            ELSE 0

\* an unsigned decimal with at most two decimals, in hundredths; <<>> otherwise
ParseUnsigned(c) ==
    LET d == DotAt(c) IN
    IF d = 0 THEN (IF AllDigits(c) THEN Some(ParseNat(c) * 100) ELSE NoData)
    ELSE LET ip == SubSeq(c, 1, d - 1)
             fp == SubSeq(c, d + 1, Len(c))
         IN  IF AllDigits(ip) /\ AllDigits(fp) /\ Len(fp) <= 2
             THEN Some(ParseNat(ip) * 100
                       + (IF Len(fp) = 1 THEN ParseNat(fp) * 10 ELSE ParseNat(fp)))
             ELSE NoData

\* pd.to_numeric(cell, errors="coerce"): the number, or NaN (here <<>>)
ToNumeric(c) ==
    IF Len(c) > 0 /\ c[1] = "-"
    THEN LET u == ParseUnsigned(Tail(c)) IN
         IF u = NoData THEN NoData ELSE Some(0 - u[1])
    ELSE ParseUnsigned(c)

\* .fillna(0.0)
FillNa(v) == IF v = NoData THEN 0 ELSE v[1]

\* index of name n in sequence h, or 0
IndexOf(h, n) == IF \E i \in 1..Len(h) : h[i] = n
                 THEN CHOOSE i \in 1..Len(h) : h[i] = n /\ \A j \in 1..(i - 1) : h[j] # n
                 ELSE 0

RECURSIVE InsertByMonth(_, _)
\* r inserted into the month-sorted sequence rs, after rows of the same month
InsertByMonth(rs, r) ==
    IF Len(rs) = 0 THEN <<r>>
    ELSE IF MonthIndex(r.month) < MonthIndex(rs[1].month) THEN <<r>> \o rs
    ELSE <<rs[1]>> \o InsertByMonth(Tail(rs), r)

RECURSIVE SortByMonth(_)
\* df.sort_values("month")
SortByMonth(rs) ==
    IF Len(rs) = 0 THEN <<>>
    ELSE InsertByMonth(SortByMonth(SubSeq(rs, 1, Len(rs) - 1)), rs[Len(rs)])

NotLoaded == [error |-> "unread", instr_cols |-> <<>>, table |-> <<>>]
LoadError(e) == [error |-> e, instr_cols |-> <<>>, table |-> <<>>]

\* the cell of column k of a split line; a short line has NaN there
CellAt(cells, k) == IF k <= Len(cells) THEN cells[k] ELSE <<>>

\* load_data (lines 28-40) on the lines of a file: an exception, or the
\* sorted table (rows of month and values) and its instrument columns
LoadData(lines) ==
    IF Len(lines) = 0 THEN LoadError("EmptyDataError")
    ELSE
    LET header == Split(lines[1], ReaderSeparator)
        body == [i \in 1..(Len(lines) - 1) |-> Split(lines[i + 1], ReaderSeparator)]
        mcol == IndexOf(header, Name_month)
        meta == {Name_month, Name_start, Name_end}
        icols == SelectSeq([k \in 1..Len(header) |-> k], LAMBDA k : header[k] \notin meta)
    IN  IF \E i \in 1..Len(body) : Len(body[i]) > Len(header)
        THEN LoadError("ParserError")
        ELSE IF mcol = 0 THEN LoadError("KeyError: month")
        ELSE IF \E i \in 1..Len(body) : ParseMonth(CellAt(body[i], mcol)) = <<>>
        THEN LoadError("ValueError: month format")
        ELSE [error |-> "none",
              instr_cols |-> [j \in 1..Len(icols) |-> header[icols[j]]],
              table |-> SortByMonth(
                 [i \in 1..Len(body) |->
                    [month |-> ParseMonth(CellAt(body[i], mcol)),
                     values |-> [j \in 1..Len(icols) |->
                                   FillNa(ToNumeric(CellAt(body[i], icols[j])))]]])]

\* a < b on the sort key (month, instrument) of DF_LONG
LongLess(a, b) ==
    \/ MonthIndex(a.month) < MonthIndex(b.month)
    \/ (a.month = b.month /\ StrLess(a.instrument, b.instrument))

RECURSIVE InsertLong(_, _)
InsertLong(rs, r) ==
    IF Len(rs) = 0 THEN <<r>>
    ELSE IF LongLess(r, rs[1]) THEN <<r>> \o rs
    ELSE <<rs[1]>> \o InsertLong(Tail(rs), r)

RECURSIVE SortLong(_)
\* .sort_values(["month", "instrument"])
SortLong(rs) ==
    IF Len(rs) = 0 THEN <<>>
    ELSE InsertLong(SortLong(SubSeq(rs, 1, Len(rs) - 1)), rs[Len(rs)])

\* DF_WIDE.melt(id_vars=["month"], value_vars=INSTRUMENTS): one record per
\* cell, column after column (lines 45-50)
Melt(ld) ==
    LET n == Len(ld.table)
        k == Len(ld.instr_cols)
    IN  [q \in 1..(n * k) |->
           LET c == ((q - 1) \div n) + 1
               r == ((q - 1) % n) + 1
           IN  [month |-> ld.table[r].month,
                instrument |-> ld.instr_cols[c],
                funding_dec |-> ld.table[r].values[c]]]

RECURSIVE GroupSum(_, _, _)
\* sum of funding_dec over the records 1..q of rs whose instrument is g
GroupSum(rs, q, g) ==
    IF q = 0 THEN 0
    ELSE GroupSum(rs, q - 1, g)
           + (IF rs[q].instrument = g THEN rs[q].funding_dec ELSE 0)

\* groupby("instrument")["funding_dec"].cumsum() in the order of rs
GroupCumSum(rs) == [q \in 1..Len(rs) |-> GroupSum(rs, q, rs[q].instrument)]

RECURSIVE PlainSum(_, _)
PlainSum(rs, q) == IF q = 0 THEN 0 ELSE PlainSum(rs, q - 1) + rs[q].funding_dec

\* as LongTable, with the cumsum taken over the whole column, not per instrument
LongTable_ungrouped(ld) ==
    LET rs == SortLong(Melt(ld))
    IN  [q \in 1..Len(rs) |->
           [month |-> rs[q].month, instrument |-> rs[q].instrument,
            funding_dec |-> rs[q].funding_dec, cum_dec |-> PlainSum(rs, q)]]

\* DF_LONG with its cum_dec column (lines 45-54)
LongTable(ld) ==
    LET rs == SortLong(Melt(ld))
        cs == GroupCumSum(rs)
    IN  [q \in 1..Len(rs) |->
           [month |-> rs[q].month, instrument |-> rs[q].instrument,
            funding_dec |-> rs[q].funding_dec, cum_dec |-> cs[q]]]

RECURSIVE MonthsOf(_)
\* the distinct months of the month-sorted records rs, ascending
MonthsOf(rs) ==
    IF Len(rs) = 0 THEN <<>>
    ELSE LET rest == MonthsOf(SubSeq(rs, 1, Len(rs) - 1)) IN
         IF Len(rest) > 0 /\ rest[Len(rest)] = rs[Len(rs)].month THEN rest
         ELSE Append(rest, rs[Len(rs)].month)

\* Folding long records back to wide form: per month, ascending, the values
\* of the columns `cols` in order
Refold(long, cols) ==
    LET ms == MonthsOf(long) IN
    [r \in 1..Len(ms) |->
       [c \in 1..Len(cols) |->
          LET q == CHOOSE q \in 1..Len(long) :
                      long[q].month = ms[r] /\ long[q].instrument = cols[c]
          IN  long[q].funding_dec]]

\* chart_app.py is imported on the file on disk: lines 43-54 (an exception
\* of load_data ends the import)
ImportChartApp ==
    /\ pc = "done"
    /\ loaded' = LoadData(Disk)
    /\ df_long' = IF loaded'.error = "none" THEN LongTable(loaded') ELSE <<>>
    /\ pc' = "loaded"
    /\ UNCHANGED <<instruments, start_month, end_month, retries, retry_backoff_s,
                   error_value, current, next_month, start_ts, end_ts, values, idx,
                   retval, raised, anyHttp, fileState, rows, stream, flushed, calls,
                   fig, stats>>
    /\ UNCHANGED wrapperLocals

----------------------------------------------------------------------------
(* chart_app.py: the cumulative figure *)

\* _month_start: pd.Timestamp(year, month, 1), as <<year, month>>
MonthStart(y, m) == <<y, m>>

\* _month_end_exclusive: _month_start + MonthBegin(1)
MonthEndExclusive(y, m) == MonthOf(MonthIndex(MonthStart(y, m)) + 1)

\* as NormalizeRange, swapping only when start is after end_excl
NormalizeRange_strict(sy, sm, ey, em) ==
    LET start == MonthStart(sy, sm)
        end_excl == MonthEndExclusive(ey, em)
    IN  IF MonthIndex(start) > MonthIndex(end_excl)
        THEN [start |-> MonthStart(ey, em), end_excl |-> MonthEndExclusive(sy, sm)]
        ELSE [start |-> start, end_excl |-> end_excl]

\* _normalize_range (lines 97-103)
NormalizeRange(sy, sm, ey, em) ==
    LET start == MonthStart(sy, sm)
        end_excl == MonthEndExclusive(ey, em)
    IN  IF MonthIndex(start) >= MonthIndex(end_excl)
        THEN [start |-> MonthStart(ey, em), end_excl |-> MonthEndExclusive(sy, sm)]
        ELSE [start |-> start, end_excl |-> end_excl]

\* as InWindow, without the lower boundary
InWindow_noStart(m, w) == MonthIndex(m) < MonthIndex(w.end_excl)

\* (dff["month"] >= start_ts) & (dff["month"] < end_excl) (line 124)
InWindow(m, w) ==
    MonthIndex(m) >= MonthIndex(w.start) /\ MonthIndex(m) < MonthIndex(w.end_excl)

IsIn(x, l) == \E i \in 1..Len(l) : l[i] = x

\* a < b on the sort key (instrument, month) of line 125
WindowLess(a, b) ==
    \/ StrLess(a.instrument, b.instrument)
    \/ (a.instrument = b.instrument /\ MonthIndex(a.month) < MonthIndex(b.month))

RECURSIVE InsertWindow(_, _)
InsertWindow(rs, r) ==
    IF Len(rs) = 0 THEN <<r>>
    ELSE IF WindowLess(r, rs[1]) THEN <<r>> \o rs
    ELSE <<rs[1]>> \o InsertWindow(Tail(rs), r)

RECURSIVE SortWindow(_)
\* .sort_values(["instrument", "month"])
SortWindow(rs) ==
    IF Len(rs) = 0 THEN <<>>
    ELSE InsertWindow(SortWindow(SubSeq(rs, 1, Len(rs) - 1)), rs[Len(rs)])

\* value * 100.0: percent, in the same hundredths
Percent(v) == v * 100

\* lines 123-131: the rows of the selected instruments inside the window,
\* with the cumulative sum recomputed inside the window, in percent
WindowSeries(long, selected, w) ==
    LET dff == SortWindow(SelectSeq(long,
                  LAMBDA d : IsIn(d.instrument, selected) /\ InWindow(d.month, w)))
        cs == GroupCumSum(dff)
    IN  [q \in 1..Len(dff) |->
           [month |-> dff[q].month, instrument |-> dff[q].instrument,
            funding_dec |-> dff[q].funding_dec, cum_window_dec |-> cs[q],
            y |-> Percent(cs[q])]]

RECURSIVE SumOfMonth(_, _, _)
\* sum of funding_dec over the records 1..q of rs whose month is m
SumOfMonth(rs, q, m) ==
    IF q = 0 THEN 0
    ELSE SumOfMonth(rs, q - 1, m) + (IF rs[q].month = m THEN rs[q].funding_dec ELSE 0)

RECURSIVE RunningSum(_, _)
\* xs[1] + ... + xs[t]
RunningSum(xs, t) == IF t = 0 THEN 0 ELSE RunningSum(xs, t - 1) + xs[t]

\* as TotalSeries, with the monthly sums plotted without the running sum
TotalSeries_monthly(series) ==
    LET ms == MonthsOf(SortByMonth(series))
        sums == [t \in 1..Len(ms) |-> SumOfMonth(series, Len(series), ms[t])]
    IN  [t \in 1..Len(ms) |->
           [month |-> ms[t],
            funding_dec |-> sums[t],
            cum_total_dec |-> sums[t],
            y_total |-> Percent(sums[t])]]

\* lines 152-158: per month the sum over the rows of the window, sorted by
\* month, then the running sum of those sums, in percent
TotalSeries(series) ==
    LET ms == MonthsOf(SortByMonth(series))
        sums == [t \in 1..Len(ms) |-> SumOfMonth(series, Len(series), ms[t])]
    IN  [t \in 1..Len(ms) |->
           [month |-> ms[t],
            funding_dec |-> sums[t],
            cum_total_dec |-> RunningSum(sums, t),
            y_total |-> Percent(RunningSum(sums, t))]]

NoFigure == [made |-> FALSE, selected |-> <<>>, show_total |-> FALSE,
             args |-> <<0, 0, 0, 0>>, window |-> [start |-> <<0, 0>>, end_excl |-> <<0, 0>>],
             lines |-> <<>>, has_total |-> FALSE, total |-> <<>>]

\* make_cum_fig (lines 106-170): the traces of the figure
MakeCumFig(long, selected, show_total, sy, sm, ey, em) ==
    LET w == NormalizeRange(sy, sm, ey, em)
        series == WindowSeries(long, selected, w)
        with_total == show_total /\ Len(selected) > 0
    IN  [made |-> TRUE, selected |-> selected, show_total |-> show_total,
         args |-> <<sy, sm, ey, em>>, window |-> w, lines |-> series,
         has_total |-> with_total,
         total |-> IF with_total THEN TotalSeries(series) ELSE <<>>]

\* instrument selections of the dropdown: sub-lists of INSTRUMENTS
RECURSIVE SubLists(_)
SubLists(l) ==
    IF Len(l) = 0 THEN {<<>>}
    ELSE LET rest == SubLists(Tail(l)) IN rest \cup {<<l[1]>> \o x : x \in rest}

\* months offered for the window: from the month before the table's first
\* row to the month after its last one
WindowMonths ==
    IF Len(loaded.table) = 0 THEN {}
    ELSE {MonthOf(i) : i \in (MonthIndex(loaded.table[1].month) - 1)
                              ..(MonthIndex(loaded.table[Len(loaded.table)].month) + 1)}

\* make_cum_fig is called on DF_LONG (line 447)
CumulativeFigure ==
    /\ pc = "loaded"
    /\ loaded.error = "none"
    /\ \E selected \in SubLists(loaded.instr_cols), show_total \in BOOLEAN,
          s \in WindowMonths, e \in WindowMonths :
         fig' = MakeCumFig(df_long, selected, show_total, s[1], s[2], e[1], e[2])
    /\ pc' = "chart"
    /\ UNCHANGED <<instruments, start_month, end_month, retries, retry_backoff_s,
                   error_value, current, next_month, start_ts, end_ts, values, idx,
                   retval, raised, anyHttp, fileState, rows, stream, flushed, calls,
                   loaded, df_long, stats>>
    /\ UNCHANGED wrapperLocals

\* dff.tail(12): line 180
TrailingRows == 12

\* as TailRows, taking the rows of the n calendar months that end with the last row
TailRows_byCalendar(t, n) ==
    SelectSeq(t, LAMBDA r : MonthIndex(r.month) > MonthIndex(t[Len(t)].month) - n)

\* dff.tail(n): the last n rows by position, all rows when there are fewer
TailRows(t, n) == IF Len(t) <= n THEN t ELSE SubSeq(t, Len(t) - n + 1, Len(t))

RECURSIVE ColSum(_, _, _)
\* dff[c].sum() over the first q rows of t, c a column position
ColSum(t, q, c) == IF q = 0 THEN 0 ELSE ColSum(t, q - 1, c) + t[q].values[c]

RECURSIVE YearSum(_, _, _, _)
\* groupby("year")[c].sum() at year y (lines 183-187)
YearSum(t, q, c, y) ==
    IF q = 0 THEN 0
    ELSE YearSum(t, q - 1, c, y) + (IF Year(t[q].month) = y THEN t[q].values[c] ELSE 0)

RECURSIVE Descending(_)
\* sorted(..., reverse=True) of a set of years (line 217)
Descending(ys) ==
    IF ys = {} THEN <<>>
    ELSE LET y == CHOOSE m \in ys : \A o \in ys : o <= m
         IN  <<y>> \o Descending(ys \ {y})

\* the calendar years of the rows (line 177), newest first
DescendingYears(t) == Descending({Year(t[k].month) : k \in 1..Len(t)})

RECURSIVE InsertByTotal(_, _)
\* r inserted into rs, sorted by total descending, after rows of the same total
InsertByTotal(rs, r) ==
    IF Len(rs) = 0 THEN <<r>>
    ELSE IF r.Total > rs[1].Total THEN <<r>> \o rs
    ELSE <<rs[1]>> \o InsertByTotal(Tail(rs), r)

RECURSIVE SortByTotal(_)
\* out.sort_values("Total (all time)", ascending=False): line 215
SortByTotal(rs) ==
    IF Len(rs) = 0 THEN <<>>
    ELSE InsertByTotal(SortByTotal(SubSeq(rs, 1, Len(rs) - 1)), rs[Len(rs)])

NoStats == [made |-> FALSE, selected |-> <<>>, rows |-> <<>>]

\* make_stats_table (lines 173-220) on a table with at least one row: one
\* row per column of `cols`, in percent, sorted by the all-time total
MakeStatsTable(ld, selected) ==
    LET cols == IF Len(selected) > 0 THEN selected ELSE ld.instr_cols
        dff == SortByMonth(ld.table)
        last_month == dff[Len(dff)]
        last_12m == TailRows(dff, TrailingRows)
        years == DescendingYears(dff)
        StatRow(name) ==
            LET c == IndexOf(ld.instr_cols, name) IN
            [Instrument |-> name,
             Latest_month |-> Percent(last_month.values[c]),
             Last_12m_sum |-> Percent(ColSum(last_12m, Len(last_12m), c)),
             Total |-> Percent(ColSum(dff, Len(dff), c)),
             years |-> [k \in 1..Len(years) |->
                          [year |-> years[k],
                           value |-> Percent(YearSum(dff, Len(dff), c, years[k]))]]]
    IN  [made |-> TRUE, selected |-> selected,
         rows |-> SortByTotal([k \in 1..Len(cols) |-> StatRow(cols[k])])]

\* make_stats_table is called on DF_WIDE (line 449); dff.iloc[-1] of line 179
\* raises IndexError on a table without rows
StatsTable ==
    /\ pc = "loaded"
    /\ loaded.error = "none"
    /\ \E selected \in SubLists(loaded.instr_cols) :
         IF Len(loaded.table) = 0
         THEN /\ raised' = "IndexError"
              /\ pc' = "raised"
              /\ UNCHANGED stats
         ELSE /\ stats' = MakeStatsTable(loaded, selected)
              /\ pc' = "stats"
              /\ UNCHANGED raised
    /\ UNCHANGED <<instruments, start_month, end_month, retries, retry_backoff_s,
                   error_value, current, next_month, start_ts, end_ts, values, idx,
                   retval, anyHttp, fileState, rows, stream, flushed, calls,
                   loaded, df_long, fig>>
    /\ UNCHANGED wrapperLocals

----------------------------------------------------------------------------
(* The runs of the model *)

\* names a caller may put in the list: blank, empty, padded, plain
RawNames == {<<>>, <<" ">>, <<" ", "A", " ">>, <<"B">>}

RECURSIVE SeqsUpTo(_, _)
SeqsUpTo(S, n) ==
    IF n = 0 THEN {<<>>}
    ELSE LET shorter == SeqsUpTo(S, n - 1) IN
         shorter \cup {Append(q, x) : q \in shorter, x \in S}

StartChoices == {MonthOf(StartLo + i) : i \in 0..(NumStarts - 1)} \cup {<<2019, 13>>}

EndChoices(s) == {MonthOf(MonthIndex(s) + d) : d \in (0 - 1)..(MaxMonths - 1)}
                   \cup {<<2020, 0>>}

\* months of the range start..end when both are valid months
Span(s, e) == IF ValidMonthStr(s) /\ ValidMonthStr(e) /\ DtLeq(s, e)
              THEN MonthIndex(e) - MonthIndex(s) + 1 ELSE 0

Init ==
    /\ pc = "start"
    /\ instruments \in SeqsUpTo(RawNames, MaxInst)
    /\ start_month \in StartChoices
    /\ end_month \in EndChoices(start_month)
    /\ Len(instruments) * Span(start_month, end_month) <= MaxCells
    /\ retries \in (0 - 1)..MaxRetries
    /\ retry_backoff_s \in {1, 3}      \* seconds; time.sleep takes no negative delay
    /\ error_value \in {0, 7}
    /\ current = <<0, 0>>
    /\ next_month = <<0, 0>>
    /\ start_ts = [sec |-> 0, ms |-> 0]
    /\ end_ts = [sec |-> 0, ms |-> 0]
    /\ values = <<>>
    /\ idx = 0
    /\ attempt = 1
    /\ requests = 0
    /\ delays = <<>>
    /\ resp = NoResponse
    /\ allTransport = TRUE
    /\ retval = NoData
    /\ raised = "none"
    /\ anyHttp = FALSE
    /\ fileState = "untouched"
    /\ rows = <<>>
    /\ stream = <<>>
    /\ flushed = 0
    /\ calls = <<>>
    /\ loaded = NotLoaded
    /\ df_long = <<>>
    /\ fig = NoFigure
    /\ stats = NoStats

Next ==
    \/ Validate
    \/ OpenFile
    \/ WriteHeader
    \/ NextMonth
    \/ CallWrapper
    \/ Request
    \/ GiveUp
    \/ AppendValue
    \/ WriteRow
    \/ Finish
    \/ ImportChartApp

Spec == Init /\ [][Next]_vars

----------------------------------------------------------------------------
(* Properties of the fetch wrapper *)

Max(a, b) == IF a >= b THEN a ELSE b

\* retries as the specification counts them: a call that returns on its
\* first attempt has consumed none
RetriesConsumed == Max(requests - 1, 0)

\* C1: a response with a structured error object makes the wrapper return
\* None at once: it is the last request of the invocation, no sleep follows
\* it, and on the first attempt no retry has been consumed.
C1_StructuredErrorReturnsAtOnce ==
    IsStructuredError(resp) =>
        /\ pc = "ret"
        /\ retval = NoData
        /\ requests = attempt
        /\ Len(delays) = attempt - 1
        /\ (attempt = 1 => RetriesConsumed = 0 /\ delays = <<>>)

C1_Witness ==
    /\ IsStructuredError(resp)
    /\ attempt = 1
    /\ retries >= 2
    /\ pc = "ret"

\* C2 as stated: when every attempt fails with a transport failure, the
\* wrapper has retried exactly `retries` times when it returns None.
C2_RetriesExactlyRetriesTimes ==
    (pc = "ret" /\ allTransport) =>
        (retval = NoData /\ RetriesConsumed = Max(retries, 0))

\* C2 amended: when every attempt fails with a transport failure, the wrapper
\* makes exactly max(retries, 0) attempts, that is max(retries - 1, 0)
\* retries, each but the last followed by one sleep, and returns None.
C2_AttemptsExactlyRetries ==
    (pc = "ret" /\ allTransport) =>
        /\ retval = NoData
        /\ requests = Max(retries, 0)
        /\ RetriesConsumed = Max(retries - 1, 0)
        /\ Len(delays) = Max(retries - 1, 0)

C2_Witness ==
    /\ pc = "ret"
    /\ allTransport
    /\ retries = 3
    /\ requests = 3
    /\ resp = TransportFailure

\* C3: the wrapper never raises: whatever the attempts bring, no exception
\* leaves it, and when it returns it returns the result of the last response
\* or None.
C3_WrapperNeverRaises ==
    /\ raised # "get_funding_rate_value_or_none"
    /\ pc = "ret" =>
         \/ retval = NoData
         \/ (resp.kind = "response" /\ resp.hasResult /\ retval = resp.result)

C3_Witness ==
    /\ pc = "ret"
    /\ retval = NoData
    /\ resp = Response(TRUE, "nondict", FALSE, FALSE, NoData)
    /\ requests = retries
    /\ retries >= 2

----------------------------------------------------------------------------
(* Properties of the assembler *)

\* the invocation made for column i of the j-th month of the run
CallFor(j, i) == calls[(j - 1) * Len(instruments) + i]

\* C4: every data row has 3 + len(instruments) fields, one value per
\* instrument in list order; the value of column i in the row of month m is
\* the result of the one invocation made for (i, window of m), or error_value
\* when that invocation returned None; no (month, column) is invoked twice.
C4_OneValuePerInstrument ==
    /\ \A j \in 1..Len(rows) :
         /\ Len(rows[j].values) = Len(instruments)
         /\ Len(Split(stream[j + 1], WriterDelimiter)) = 3 + Len(instruments)
         /\ \A i \in 1..Len(instruments) :
              /\ CallFor(j, i).done
              /\ CallFor(j, i).inst = i
              /\ CallFor(j, i).name = instruments[i]
              /\ MonthLabel(CallFor(j, i).month) = rows[j].label
              /\ CallFor(j, i).start_ts = rows[j].start_ts
              /\ CallFor(j, i).end_ts = rows[j].end_ts
              /\ rows[j].values[i] = (IF CallFor(j, i).ret = NoData THEN error_value
                                      ELSE CallFor(j, i).ret[1])
              /\ Split(stream[j + 1], WriterDelimiter)[3 + i]
                   = FormatFloat(rows[j].values[i])
    /\ \A a, b \in 1..Len(calls) :
         (calls[a].month = calls[b].month /\ calls[a].inst = calls[b].inst) => a = b

C4_Witness ==
    /\ pc = "done"
    /\ Len(instruments) = 2
    /\ Len(rows) = 2
    /\ error_value = 7
    /\ rows[1].values = <<7, -1>>
    /\ rows[2].values = <<-1, 7>>

\* the calendar successor of a month, by month number
Successor(dt) == MonthOf(MonthIndex(dt) + 1)

\* C5: a completed run has written exactly
\* (end.year*12 + end.month) - (start.year*12 + start.month) + 1 rows, the
\* first for start_month, each next one for the calendar successor of the
\* month before (December is followed by January of the next year).
C5_RowPerMonthOfRange ==
    pc = "done" =>
        /\ Len(rows) = (end_month[1] * 12 + end_month[2])
                         - (start_month[1] * 12 + start_month[2]) + 1
        /\ Len(stream) = Len(rows) + 1
        /\ Len(rows) >= 1
        /\ ParseMonth(rows[1].label) = start_month
        /\ ParseMonth(rows[Len(rows)].label) = end_month
        /\ \A j \in 1..(Len(rows) - 1) :
             /\ ParseMonth(rows[j + 1].label) = Successor(ParseMonth(rows[j].label))
             /\ MonthIndex(ParseMonth(rows[j].label)) < MonthIndex(ParseMonth(rows[j + 1].label))

C5_Witness ==
    /\ pc = "done"
    /\ start_month = <<2019, 12>>
    /\ Len(rows) = 2
    /\ rows[2].label = <<"2", "0", "2", "0", "-", "0", "1">>

\* C6 as stated: the end timestamp of a window equals the start timestamp of
\* the next window.
C6_EndEqualsNextStart ==
    \A j \in 1..(Len(rows) - 1) : rows[j].end_ts = rows[j + 1].start_ts

\* C6 amended: the end timestamp of a window is the last millisecond before
\* the start of the next window: end_timestamp_ms + 1 = the next row's
\* start_timestamp_ms.
C6_EndIsLastMsBeforeNextStart ==
    \A j \in 1..(Len(rows) - 1) :
        /\ MsSucc(rows[j].end_ts) = rows[j + 1].start_ts
        /\ rows[j].end_ts # rows[j + 1].start_ts

C6_Witness ==
    /\ Len(rows) = 2
    /\ start_month = <<2020, 2>>
    /\ rows[1].end_ts = [sec |-> 1583020799, ms |-> 999]
    /\ rows[2].start_ts = [sec |-> 1583020800, ms |-> 0]

\* the arguments cannot be run: the cleaned list is empty, a month string
\* does not parse, or start_month is after end_month
InvalidArguments ==
    \/ CleanInstruments(instruments) = <<>>
    \/ ~ValidMonthStr(start_month)
    \/ ~ValidMonthStr(end_month)
    \/ MonthIndex(start_month) > MonthIndex(end_month)

\* C7: with start_month > end_month or a list that is empty once cleaned
\* the run raises, and it has then not opened the file nor issued a request.
C7_FailsFastBeforeIO ==
    /\ InvalidArguments =>
         /\ pc \in {"start", "raised"}
         /\ fileState = "untouched"
         /\ ~anyHttp
    /\ pc = "raised" =>
         /\ InvalidArguments
         /\ fileState = "untouched"
         /\ ~anyHttp
         /\ stream = <<>>

C7_Witness ==
    /\ pc = "raised"
    /\ raised = "ValueError: start_month must be <= end_month"
    /\ instruments = <<<<"A">>, <<"B">>>>
    /\ fileState = "untouched"

\* C8 as stated: at every point of a run the output file holds the header
\* followed by the complete rows of the months done so far, the row of a
\* month being there before any fetch of the next month.
C8_FileHoldsRowsAsWritten ==
    pc \in {"month", "inst", "attempt", "ret"} =>
        /\ Len(stream) = 1 + Len(rows)
        /\ Disk = stream

\* C9 as stated: the file written by a run, read back by load_data, melted
\* and folded back to wide form, gives the instrument columns and the value
\* matrix of the run.
C9_RoundTrip ==
    pc = "loaded" =>
        /\ loaded.error = "none"
        /\ loaded.instr_cols = instruments
        /\ Refold(SortLong(Melt(loaded)), loaded.instr_cols)
             = [j \in 1..Len(rows) |-> rows[j].values]

----------------------------------------------------------------------------
(* chart_app.py on a table file of its own format *)

MaxRows == 3         \* the table file has 1..MaxRows month rows

\* first month of the table files: November 2019
ChartStart == 2019 * 12 + 10

ChartColumns == <<<<"A">>, <<"B">>>>

\* monthly values of a column, in hundredths
ColumnValues(c) == IF c = 1 THEN {-2, 1, 3} ELSE {0, 5}

ChartTables ==
    UNION {[1..n -> {<<a, b>> : a \in ColumnValues(1), b \in ColumnValues(2)}] :
             n \in 1..MaxRows}

\* the `;`-separated file of a table: header, then one row per month
ChartFile(t) ==
    <<Join(HeaderFields(ChartColumns), ReaderSeparator)>>
      \o [r \in 1..Len(t) |->
            Join(RowFields(Row(MonthOf(ChartStart + r - 1),
                               StartTs(MonthOf(ChartStart + r - 1)),
                               EndTs(MonthOf(ChartStart + r - 1)), t[r])),
                 ReaderSeparator)]

InitChart ==
    /\ pc = "done"
    /\ stream \in {ChartFile(t) : t \in ChartTables}
    /\ flushed = Len(stream)
    /\ fileState = "closed"
    /\ instruments = <<>>
    /\ start_month = <<0, 0>>
    /\ end_month = <<0, 0>>
    /\ retries = 0
    /\ retry_backoff_s = 1
    /\ error_value = 0
    /\ current = <<0, 0>>
    /\ next_month = <<0, 0>>
    /\ start_ts = [sec |-> 0, ms |-> 0]
    /\ end_ts = [sec |-> 0, ms |-> 0]
    /\ values = <<>>
    /\ idx = 0
    /\ attempt = 1
    /\ requests = 0
    /\ delays = <<>>
    /\ resp = NoResponse
    /\ allTransport = TRUE
    /\ retval = NoData
    /\ raised = "none"
    /\ anyHttp = FALSE
    /\ rows = <<>>
    /\ calls = <<>>
    /\ loaded = NotLoaded
    /\ df_long = <<>>
    /\ fig = NoFigure
    /\ stats = NoStats

NextChart ==
    \/ ImportChartApp
    \/ CumulativeFigure

SpecChart == InitChart /\ [][NextChart]_vars

RECURSIVE SumRows(_, _, _, _, _)
\* sum of column c over the rows 1..r of table t whose month is in lo..hi
SumRows(t, r, c, lo, hi) ==
    IF r = 0 THEN 0
    ELSE SumRows(t, r - 1, c, lo, hi)
           + (IF lo <= MonthIndex(t[r].month) /\ MonthIndex(t[r].month) <= hi
              THEN t[r].values[c] ELSE 0)

\* C10: in the figure of make_cum_fig, each selected instrument has one point
\* per table month of the window [start, end-of-end-month) and no other; the
\* cumulative value at month m is the sum of the instrument's monthly values
\* over the window's months up to m, months before the start not counted;
\* monthly values [0.01, -0.02, 0.03] over the full range give [1.0, -1.0,
\* 2.0] percent.
C10_WindowedCumulativeSum ==
    fig.made =>
      LET w == fig.window
          t == loaded.table
          cols == loaded.instr_cols
          s == <<fig.args[1], fig.args[2]>>
          e == <<fig.args[3], fig.args[4]>>
          lo == MonthIndex(w.start)
          hi == MonthIndex(w.end_excl) - 1
      IN  /\ MonthIndex(s) <= MonthIndex(e) => (w.start = s /\ hi = MonthIndex(e))
          /\ \A q \in 1..Len(fig.lines) :
               LET d == fig.lines[q]
                   c == IndexOf(cols, d.instrument)
               IN  /\ IsIn(d.instrument, fig.selected)
                   /\ c > 0
                   /\ lo <= MonthIndex(d.month) /\ MonthIndex(d.month) <= hi
                   /\ d.cum_window_dec = SumRows(t, Len(t), c, lo, MonthIndex(d.month))
                   /\ d.y = 100 * d.cum_window_dec
          /\ \A c \in 1..Len(cols) : \A r \in 1..Len(t) :
               (IsIn(cols[c], fig.selected)
                  /\ lo <= MonthIndex(t[r].month) /\ MonthIndex(t[r].month) <= hi)
               => Cardinality({q \in 1..Len(fig.lines) :
                       fig.lines[q].instrument = cols[c]
                         /\ fig.lines[q].month = t[r].month}) = 1
          /\ ( /\ [r \in 1..Len(t) |-> t[r].values[1]] = <<1, -2, 3>>
               /\ fig.selected = <<cols[1]>>
               /\ lo <= MonthIndex(t[1].month)
               /\ hi >= MonthIndex(t[3].month) )
             => /\ [q \in 1..Len(fig.lines) |-> fig.lines[q].cum_window_dec] = <<1, -1, 2>>
                /\ [q \in 1..Len(fig.lines) |-> fig.lines[q].y] = <<100, -100, 200>>

C10_Witness ==
    /\ fig.made
    /\ Len(loaded.table) = 3
    /\ [r \in 1..3 |-> loaded.table[r].values[1]] = <<1, -2, 3>>
    /\ fig.selected = <<<<"A">>>>
    /\ fig.args = <<2019, 12, 2020, 1>>
    /\ [q \in 1..Len(fig.lines) |-> fig.lines[q].y] = <<-200, 100>>

\* the points expected for the selection `sel` over the months lo..hi of the
\* table: per instrument in name order, per table month ascending, the sum of
\* the instrument's values over lo..month
ExpectedPoints(sel, lo, hi) ==
    {[month |-> loaded.table[r].month, instrument |-> loaded.instr_cols[c],
      cum |-> SumRows(loaded.table, Len(loaded.table), c, lo,
                      MonthIndex(loaded.table[r].month))] :
        c \in {k \in 1..Len(loaded.instr_cols) : IsIn(loaded.instr_cols[k], sel)},
        r \in {k \in 1..Len(loaded.table) :
                 lo <= MonthIndex(loaded.table[k].month)
                   /\ MonthIndex(loaded.table[k].month) <= hi}}

\* the points of the figure
FigurePoints(f) ==
    {[month |-> f.lines[q].month, instrument |-> f.lines[q].instrument,
      cum |-> f.lines[q].cum_window_dec] : q \in 1..Len(f.lines)}

\* C11: for an inverted window (end month before start month) make_cum_fig
\* does not fail, and its window and series are those of the call with the
\* two boundaries swapped: the window from the end month through the start
\* month.
C11_InvertedWindowIsSwapped ==
    (fig.made /\ MonthIndex(<<fig.args[1], fig.args[2]>>)
                   > MonthIndex(<<fig.args[3], fig.args[4]>>)) =>
      LET s == <<fig.args[1], fig.args[2]>>
          e == <<fig.args[3], fig.args[4]>>
          swapped == MakeCumFig(df_long, fig.selected, fig.show_total,
                                e[1], e[2], s[1], s[2])
      IN  /\ fig.window = [start |-> e, end_excl |-> MonthOf(MonthIndex(s) + 1)]
          /\ fig.window = swapped.window
          /\ fig.lines = swapped.lines
          /\ fig.total = swapped.total
          /\ FigurePoints(fig)
               = ExpectedPoints(fig.selected, MonthIndex(e), MonthIndex(s))
          /\ Len(fig.lines) = Cardinality(FigurePoints(fig))

C11_Witness ==
    /\ fig.made
    /\ fig.args = <<2019, 12, 2019, 11>>
    /\ Len(loaded.table) = 3
    /\ fig.selected = <<<<"A">>>>
    /\ Len(fig.lines) = 2
    /\ fig.lines[1].month = <<2019, 11>>
    /\ fig.lines[2].month = <<2019, 12>>

\* the window of the figure covers every month of the table
FullRange(f) ==
    /\ Len(loaded.table) > 0
    /\ MonthIndex(f.window.start) <= MonthIndex(loaded.table[1].month)
    /\ MonthIndex(f.window.end_excl)
         > MonthIndex(loaded.table[Len(loaded.table)].month)

\* C12: over the full range of the table the windowed cumulative sum of
\* make_cum_fig is, for every selected instrument at every month, the cum_dec
\* of DF_LONG at that instrument and month.
C12_FullRangeEqualsCumDec ==
    (fig.made /\ FullRange(fig)) =>
      /\ \A q \in 1..Len(fig.lines) :
           \E k \in 1..Len(df_long) :
              /\ df_long[k].month = fig.lines[q].month
              /\ df_long[k].instrument = fig.lines[q].instrument
              /\ df_long[k].cum_dec = fig.lines[q].cum_window_dec
      /\ \A k \in 1..Len(df_long) :
           IsIn(df_long[k].instrument, fig.selected) =>
             \E q \in 1..Len(fig.lines) :
                /\ df_long[k].month = fig.lines[q].month
                /\ df_long[k].instrument = fig.lines[q].instrument
                /\ df_long[k].cum_dec = fig.lines[q].cum_window_dec

C12_Witness ==
    /\ fig.made
    /\ FullRange(fig)
    /\ Len(loaded.table) = 3
    /\ Len(fig.selected) = 2
    /\ Len(fig.lines) = 6
    /\ df_long[5].cum_dec # df_long[5].funding_dec
    /\ df_long[6].cum_dec = 10

RECURSIVE SumSelected(_, _, _, _)
\* sum over the columns 1..c that are selected of their values over lo..hi
SumSelected(sel, c, lo, hi) ==
    IF c = 0 THEN 0
    ELSE SumSelected(sel, c - 1, lo, hi)
           + (IF IsIn(loaded.instr_cols[c], sel)
              THEN SumRows(loaded.table, Len(loaded.table), c, lo, hi) ELSE 0)

\* C13: the TOTAL series is drawn exactly when the total is asked for and the
\* selection is not empty; it has one point per table month of the window, in
\* ascending order, whose monthly value is the sum of the selected
\* instruments' values of that month and whose cumulative value is the
\* running sum of those monthly sums from the window's start.
C13_TotalIsSumThenCumulate ==
    fig.made =>
      LET lo == MonthIndex(fig.window.start)
          hi == MonthIndex(fig.window.end_excl) - 1
          months == SelectSeq([r \in 1..Len(loaded.table) |-> loaded.table[r].month],
                              LAMBDA m : lo <= MonthIndex(m) /\ MonthIndex(m) <= hi)
      IN  /\ fig.has_total = (fig.show_total /\ fig.selected # <<>>)
          /\ ~fig.has_total => fig.total = <<>>
          /\ fig.has_total =>
               /\ [t \in 1..Len(fig.total) |-> fig.total[t].month] = months
               /\ \A t \in 1..Len(fig.total) :
                    LET m == MonthIndex(fig.total[t].month) IN
                    /\ fig.total[t].funding_dec = SumSelected(fig.selected,
                           Len(loaded.instr_cols), m, m)
                    /\ fig.total[t].cum_total_dec = SumSelected(fig.selected,
                           Len(loaded.instr_cols), lo, m)
                    /\ fig.total[t].y_total = 100 * fig.total[t].cum_total_dec

C13_Witness ==
    /\ fig.made
    /\ fig.has_total
    /\ Len(fig.selected) = 2
    /\ Len(loaded.table) = 3
    /\ fig.args = <<2019, 12, 2020, 1>>
    /\ [t \in 1..Len(fig.total) |-> fig.total[t].funding_dec] = <<3, 8>>
    /\ [t \in 1..Len(fig.total) |-> fig.total[t].y_total] = <<300, 1100>>

----------------------------------------------------------------------------
(* make_stats_table on tables longer than the trailing window *)

ExtraRows == 1       \* the table file has 1..TrailingRows + ExtraRows month rows

\* months missing from the file between its second and third rows
StatsGaps == {0, TrailingRows}

\* column A takes either value in each of the first two months and one value
\* in all later months, column B one value in all months
StatsTables ==
    {[r \in 1..n |-> <<IF r <= 2 THEN head[r] ELSE body, b>>] :
        n \in 1..(TrailingRows + ExtraRows), head \in [1..2 -> {-2, 3}],
        body \in {1, 3}, b \in {0, 5}}

\* month of row r of a table file with `gap` months missing after row 2
StatsMonth(r, gap) == MonthOf(ChartStart + r - 1 + (IF r > 2 THEN gap ELSE 0))

\* the `;`-separated file of a table: header, then one row per month
StatsFile(t, gap) ==
    <<Join(HeaderFields(ChartColumns), ReaderSeparator)>>
      \o [r \in 1..Len(t) |->
            Join(RowFields(Row(StatsMonth(r, gap), StartTs(StatsMonth(r, gap)),
                               EndTs(StatsMonth(r, gap)), t[r])),
                 ReaderSeparator)]

InitStats ==
    /\ pc = "done"
    /\ stream \in {StatsFile(t, gap) : t \in StatsTables, gap \in StatsGaps}
    /\ flushed = Len(stream)
    /\ fileState = "closed"
    /\ instruments = <<>>
    /\ start_month = <<0, 0>>
    /\ end_month = <<0, 0>>
    /\ retries = 0
    /\ retry_backoff_s = 1
    /\ error_value = 0
    /\ current = <<0, 0>>
    /\ next_month = <<0, 0>>
    /\ start_ts = [sec |-> 0, ms |-> 0]
    /\ end_ts = [sec |-> 0, ms |-> 0]
    /\ values = <<>>
    /\ idx = 0
    /\ attempt = 1
    /\ requests = 0
    /\ delays = <<>>
    /\ resp = NoResponse
    /\ allTransport = TRUE
    /\ retval = NoData
    /\ raised = "none"
    /\ anyHttp = FALSE
    /\ rows = <<>>
    /\ calls = <<>>
    /\ loaded = NotLoaded
    /\ df_long = <<>>
    /\ fig = NoFigure
    /\ stats = NoStats

NextStats ==
    \/ ImportChartApp
    \/ StatsTable

SpecStats == InitStats /\ [][NextStats]_vars

RECURSIVE SumFrom(_, _, _)
\* sum of column c over the rows from..Len(t) of the table t
SumFrom(t, from, c) ==
    IF from > Len(t) THEN 0 ELSE t[from].values[c] + SumFrom(t, from + 1, c)

\* C14: in the table of make_stats_table the trailing-12-month sum of an
\* instrument is the sum of its values in the last 12 rows by position of
\* the month-ordered table, whatever months those rows are; with fewer than
\* 12 rows it is the sum of all rows, equal to the all-time sum.
C14_TrailingSumByPosition ==
    stats.made =>
      \A k \in 1..Len(stats.rows) :
        LET n == Len(loaded.table)
            c == IndexOf(loaded.instr_cols, stats.rows[k].Instrument)
        IN  /\ c > 0
            /\ stats.rows[k].Last_12m_sum
                 = 100 * SumFrom(loaded.table, IF n > 12 THEN n - 11 ELSE 1, c)
            /\ stats.rows[k].Total = 100 * SumFrom(loaded.table, 1, c)
            /\ n < 12 => stats.rows[k].Last_12m_sum = stats.rows[k].Total

\* thirteen rows, the second one 23 months before the last: it is inside the
\* trailing sum, the first row is not
C14_Witness ==
    /\ stats.made
    /\ Len(loaded.table) = 13
    /\ MonthIndex(loaded.table[13].month) - MonthIndex(loaded.table[2].month) = 23
    /\ \E k \in 1..Len(stats.rows) :
         /\ stats.rows[k].Instrument = <<"A">>
         /\ stats.rows[k].Total = 100 * SumFrom(loaded.table, 1, 1)
         /\ stats.rows[k].Last_12m_sum = stats.rows[k].Total - 300
         /\ stats.rows[k].Last_12m_sum = 100 * SumFrom(loaded.table, 2, 1)

----------------------------------------------------------------------------
(* The wrapper's delays and request count, and termination *)

Min(a, b) == IF a <= b THEN a ELSE b

\* C15: the k-th delay slept inside one call of the wrapper is
\* retry_backoff_s * k, slept after the k-th failed attempt and before the
\* next one; no delay follows the last attempt the loop allows, nor an
\* attempt that returns.
C15_LinearBackoff ==
    /\ \A k \in 1..Len(delays) : delays[k] = retry_backoff_s * k
    /\ pc = "attempt" => Len(delays) = Min(requests, Max(retries - 1, 0))
    /\ pc = "ret" => Len(delays) = Max(requests - 1, 0)
    /\ pc \notin {"attempt", "ret"} => delays = <<>>

C15_Witness ==
    /\ pc = "ret"
    /\ retry_backoff_s = 3
    /\ retries = 4
    /\ requests = 4
    /\ retval = NoData
    /\ resp.kind = "exception"
    /\ delays = <<3, 6, 9>>

FairRetries == 2     \* retries ranges over -1..FairRetries in the fair runs

\* the runs from December 2019, with one delay base and one error value
InitFair ==
    /\ Init
    /\ retries <= FairRetries
    /\ start_month = MonthOf(StartLo + 1)
    /\ retry_backoff_s = 1
    /\ error_value = 7

\* The interpreter keeps running the program: a step that can be taken is
\* taken, every HTTP call and every sleep ending in finite time.
FairSpec == InitFair /\ [][Next]_vars /\ WF_vars(Next)

\* C16: a run with valid arguments eventually completes, whatever the HTTP
\* calls answer: it reaches the end of the month loop with the file closed,
\* one row per month of the range, each with one value per instrument, and
\* the whole table on disk.
C16_RunCompletes ==
    (pc = "start" /\ ~InvalidArguments) ~>
        (/\ pc = "done"
         /\ fileState = "closed"
         /\ Len(rows) = Span(start_month, end_month)
         /\ \A j \in 1..Len(rows) : Len(rows[j].values) = Len(instruments)
         /\ Len(stream) = Len(rows) + 1
         /\ Disk = stream)

C16_Witness ==
    /\ pc = "done"
    /\ fileState = "closed"
    /\ retries = 2
    /\ Len(rows) = 2
    /\ rows[1].values = <<7, -1>>
    /\ rows[2].values = <<-1, 7>>
    /\ Disk = stream

\* C17: one call of the wrapper issues at most max(retries, 0) HTTP requests;
\* with retries <= 0 it issues none and returns None, so that every cell of
\* the run holds error_value and the API is never contacted.
C17_AtMostRetriesRequests ==
    /\ requests <= Max(retries, 0)
    /\ retries <= 0 =>
         /\ requests = 0
         /\ ~anyHttp
         /\ pc = "ret" => retval = NoData
         /\ \A k \in 1..Len(calls) : calls[k].done => calls[k].ret = NoData
         /\ \A j \in 1..Len(rows) :
              \A i \in 1..Len(rows[j].values) : rows[j].values[i] = error_value

C17_Witness ==
    /\ pc = "done"
    /\ retries = 0
    /\ error_value = 7
    /\ ~anyHttp
    /\ Len(rows) = 2
    /\ rows[1].values = <<7, 7>>
    /\ rows[2].values = <<7, 7>>

====
